---- MODULE Spec2Model ----
(***************************************************************************)
(* A model of the type-inference crate (src/src/lib.rs): the Value, Type   *)
(* and Expr data types, Value::type_of, the Hash and PartialEq             *)
(* implementations, and the recursive-descent Parser.                      *)
(*                                                                         *)
(* Parser methods are operators over a cursor record                       *)
(*     p = [index, panic, calls, seed, steps]                              *)
(* (index: Parser::index; panic: a panic!/unwrap failure has unwound the   *)
(* call; calls: a history of the consume_string calls, kept only so that   *)
(* properties can speak about them; seed: the RandomState of the run's     *)
(* hash sets; steps: a history of the loop iterations completed, kept for  *)
(* the same reason).  Methods that return a value return                   *)
(* [p |-> cursor after the call, v |-> value].  Parser::body never changes *)
(* after Parser::new and is read from the variable body.                   *)
(***************************************************************************)
EXTENDS Integers, Sequences, FiniteSets, TLC

VARIABLES
    body,            \* Parser::body, a sequence of one-character strings
    index,           \* Parser::index
    pc,              \* where the modelled call stands
    exprs,           \* the local `exprs` of Parser::parse
    strCalls,        \* history: the consume_string calls made so far
    arg,             \* the argument(s) of the modelled call
    ret,             \* what the modelled call returned
    overflowChecks,  \* build profile: are arithmetic overflow checks compiled in
    randomState,     \* the run's RandomState: fixes the iteration order of its hash sets
    loopSteps        \* history: the loop iterations completed so far

vars == <<body, index, pc, exprs, strCalls, arg, ret, overflowChecks, randomState, loopSteps>>

None == [tag |-> "None"]

(***************************************************************************)
(* Bounds of the model.                                                    *)
(***************************************************************************)
\* longest flat list / most entries of a flat map drawn as a type_of input
MaxLen == 3
\* most items of a nested list or map drawn as a type_of input
MaxNest == 2
\* most atoms of the top-level union of a type annotation
MaxAtoms == 3
\* most items of a list literal, most entries of a map literal, in a parsed program
MaxItems == 2
\* longest run of digits parsed
MaxDigits == 10
\* most characters asked of peek
MaxPeek == 5

(***************************************************************************)
(* enum Type and its derived Ord.                                          *)
(***************************************************************************)
TBool == [tag |-> "Bool", fst |-> <<>>, snd |-> <<>>]
TInteger == [tag |-> "Integer", fst |-> <<>>, snd |-> <<>>]
TString == [tag |-> "String", fst |-> <<>>, snd |-> <<>>]
TList(members) == [tag |-> "List", fst |-> members, snd |-> <<>>]
TMap(keys, vals) == [tag |-> "Map", fst |-> keys, snd |-> vals]

\* the position of a variant in the enum declaration
Discriminant(t) ==
    CASE t.tag = "Bool" -> 0
      [] t.tag = "Integer" -> 1
      [] t.tag = "String" -> 2
      [] t.tag = "List" -> 3
      [] t.tag = "Map" -> 4

RECURSIVE TypeCmp(_, _)
RECURSIVE VecCmp(_, _)
\* #[derive(PartialOrd, Ord)]: -1, 0, 1 for Less, Equal, Greater
TypeCmp(x, y) ==
    IF Discriminant(x) # Discriminant(y)
    THEN (IF Discriminant(x) < Discriminant(y) THEN -1 ELSE 1)
    ELSE LET c == VecCmp(x.fst, y.fst)
         IN IF c # 0 THEN c ELSE VecCmp(x.snd, y.snd)

\* Vec<Type>'s lexicographic Ord
VecCmp(s, t) ==
    IF s = <<>> THEN (IF t = <<>> THEN 0 ELSE -1)
    ELSE IF t = <<>> THEN 1
    ELSE LET c == TypeCmp(Head(s), Head(t))
         IN IF c # 0 THEN c ELSE VecCmp(Tail(s), Tail(t))

RECURSIVE SortInsert(_, _)
\* x placed after every element that is not greater than it (a stable sort's step)
SortInsert(x, s) ==
    IF s = <<>> THEN <<x>>
    ELSE IF TypeCmp(x, Head(s)) < 0 THEN <<x>> \o s
    ELSE <<Head(s)>> \o SortInsert(x, Tail(s))

RECURSIVE SortFrom(_, _)
SortFrom(s, acc) ==
    IF s = <<>> THEN acc ELSE SortFrom(Tail(s), SortInsert(Head(s), acc))

\* a sort left out: the vector stays in the set's iteration order
SortTypes_Unsorted(s) == s

\* Vec<Type>::sort()
SortTypes(s) == SortFrom(s, <<>>)

(***************************************************************************)
(* HashSet / HashMap iteration.  The order is unspecified: it depends on   *)
(* the map's RandomState.  seed picks one of the permutations.             *)
(***************************************************************************)
RECURSIVE SetToSeq(_)
SetToSeq(S) ==
    IF S = {} THEN <<>>
    ELSE LET x == CHOOSE y \in S : TRUE IN <<x>> \o SetToSeq(S \ {x})

RECURSIVE Fact(_)
Fact(n) == IF n <= 1 THEN 1 ELSE n * Fact(n - 1)

RemoveAt(s, i) == SubSeq(s, 1, i - 1) \o SubSeq(s, i + 1, Len(s))

RECURSIVE NthPerm(_, _)
NthPerm(s, k) ==
    IF s = <<>> THEN <<>>
    ELSE LET f == Fact(Len(s) - 1)
             i == ((k \div f) % Len(s)) + 1
         IN <<s[i]>> \o NthPerm(RemoveAt(s, i), k % f)

\* the sequence in which a HashSet or HashMap with this seed yields its elements
IterOrder(S, seed) == NthPerm(SetToSeq(S), seed)

(***************************************************************************)
(* Characters: one-character strings, with their ASCII codes.              *)
(***************************************************************************)
Digits == <<"0", "1", "2", "3", "4", "5", "6", "7", "8", "9">>
Upper ==
    << "A", "B", "C", "D", "E", "F", "G", "H", "I", "J", "K", "L", "M",
       "N", "O", "P", "Q", "R", "S", "T", "U", "V", "W", "X", "Y", "Z" >>
Lower ==
    << "a", "b", "c", "d", "e", "f", "g", "h", "i", "j", "k", "l", "m",
       "n", "o", "p", "q", "r", "s", "t", "u", "v", "w", "x", "y", "z" >>

IndexOf(c, table) == CHOOSE i \in DOMAIN table : table[i] = c
Occurs(c, table) == \E i \in DOMAIN table : table[i] = c

\* the ASCII code of a character the model uses
Code(c) ==
    IF Occurs(c, Digits) THEN 47 + IndexOf(c, Digits)
    ELSE IF Occurs(c, Upper) THEN 64 + IndexOf(c, Upper)
    ELSE IF Occurs(c, Lower) THEN 96 + IndexOf(c, Lower)
    ELSE CASE c = "\t" -> 9
           [] c = "\n" -> 10
           [] c = "\f" -> 12
           [] c = "\r" -> 13
           [] c = " " -> 32
           [] c = "\"" -> 34
           [] c = "," -> 44
           [] c = ":" -> 58
           [] c = ";" -> 59
           [] c = "=" -> 61
           [] c = "[" -> 91
           [] c = "]" -> 93
           [] c = "{" -> 123
           [] c = "|" -> 124
           [] c = "}" -> 125

\* char::is_ascii_whitespace: space, tab, line feed, form feed, carriage return
is_ascii_whitespace(c) == Code(c) \in {32, 9, 10, 12, 13}
\* char::is_ascii_digit
is_ascii_digit(c) == Code(c) \in 48..57
\* char::is_ascii_alphabetic
is_ascii_alphabetic(c) == Code(c) \in (65..90) \cup (97..122)
\* char::to_digit(10) of an ASCII digit
to_digit(c) == Code(c) - 48

(***************************************************************************)
(* 64-bit and 32-bit integers.  A number is <<hi, lo>>, standing for       *)
(* hi * 2^16 + lo with 0 <= lo < 2^16.                                     *)
(***************************************************************************)
Limb == 2^16

Num(n) == <<n \div Limb, n % Limb>>

(***************************************************************************)
(* enum Value.  A HashMap<Value, Value> is the set of its <<key, value>>   *)
(* entries, with no two entries sharing a key.                             *)
(***************************************************************************)
VBool(b) == [tag |-> "Bool", b |-> b, n |-> <<0, 0>>, s |-> <<>>, items |-> <<>>, ents |-> {}]
VInteger(n) == [tag |-> "Integer", b |-> FALSE, n |-> n, s |-> <<>>, items |-> <<>>, ents |-> {}]
VString(s) == [tag |-> "String", b |-> FALSE, n |-> <<0, 0>>, s |-> s, items |-> <<>>, ents |-> {}]
VList(items) == [tag |-> "List", b |-> FALSE, n |-> <<0, 0>>, s |-> <<>>, items |-> items, ents |-> {}]
VMap(ents) == [tag |-> "Map", b |-> FALSE, n |-> <<0, 0>>, s |-> <<>>, items |-> <<>>, ents |-> ents]

\* HashMap::insert: an entry with an equal key is replaced
MapInsert(ents, k, v) == {e \in ents : e[1] # k} \cup {<<k, v>>}

RECURSIVE type_of(_, _)
\* Value::type_of
type_of(v, seed) ==
    CASE v.tag = "Bool" -> TBool
      [] v.tag = "Integer" -> TInteger
      [] v.tag = "String" -> TString
      [] v.tag = "List" ->
            LET set == {type_of(v.items[i], seed) : i \in DOMAIN v.items}
            IN TList(SortTypes(IterOrder(set, seed)))
      [] v.tag = "Map" ->
            LET keys == {type_of(e[1], seed) : e \in v.ents}
                vals == {type_of(e[2], seed) : e \in v.ents}
            IN TMap(SortTypes(IterOrder(keys, seed)), SortTypes(IterOrder(vals, seed)))

(***************************************************************************)
(* The values type_of is applied to.                                       *)
(***************************************************************************)
SeqsUpTo(S, n) == UNION {[1..k -> S] : k \in 0..n}

\* the maps with at most n entries, keys from K and values from V
MapsUpTo(K, V, n) ==
    UNION {UNION {[D -> V] : D \in {X \in SUBSET K : Cardinality(X) = k}} : k \in 0..n}

Entries(f) == {<<k, f[k]>> : k \in DOMAIN f}

Atoms == {VBool(TRUE), VInteger(Num(1)), VInteger(Num(2)), VString(<<"a">>)}

FlatValues ==
    {VList(s) : s \in SeqsUpTo(Atoms, MaxLen)}
        \cup {VMap(Entries(f)) : f \in MapsUpTo(Atoms, Atoms, MaxLen)}

\* what a nested collection holds: atoms, and collections of up to two atoms
Inner ==
    {VBool(TRUE), VInteger(Num(1)), VString(<<"a">>)}
        \cup {VList(s) : s \in SeqsUpTo({VBool(TRUE), VInteger(Num(1))}, 2)}
        \cup {VMap({<<VInteger(Num(1)), VBool(TRUE)>>}),
              VMap({<<VInteger(Num(1)), VInteger(Num(2))>>, <<VBool(TRUE), VString(<<"a">>)>>})}

NestedValues ==
    {VList(s) : s \in SeqsUpTo(Inner, MaxNest)}
        \cup {VMap(Entries(f)) : f \in MapsUpTo(Inner, Inner, MaxNest - 1)}

TypeOfInputs == Atoms \cup FlatValues \cup NestedValues

\* one seed for each iteration order of a hash set of at most n elements
SeedsFor(n) == 0..(Fact(n) - 1)

(***************************************************************************)
(* Specification SpecTypeOf: Value::type_of applied to a value.            *)
(***************************************************************************)
InitTypeOf ==
    /\ body = <<>>
    /\ index = 0
    /\ pc = "ready"
    /\ exprs = <<>>
    /\ strCalls = <<>>
    /\ loopSteps = <<>>
    /\ arg \in TypeOfInputs
    /\ ret = None
    /\ overflowChecks = TRUE
    /\ randomState \in SeedsFor(MaxLen)

TypeOf ==
    /\ pc = "ready"
    /\ ret' = type_of(arg, randomState)
    /\ pc' = "done"
    /\ UNCHANGED <<body, index, exprs, strCalls, arg, overflowChecks, randomState, loopSteps>>

NextTypeOf == TypeOf

SpecTypeOf == InitTypeOf /\ [][NextTypeOf]_vars

(***************************************************************************)
(* impl Hash for Value.  A hasher's state is the sequence of words written *)
(* to it; finish folds them.                                               *)
(***************************************************************************)
\* bool::hash: write_u8(b as u8)
hash_bool(b, state) == Append(state, IF b THEN 1 ELSE 0)
\* i64::hash: write_i64, here the two limbs
hash_i64(n, state) == state \o n
\* str::hash: the bytes, then write_u8(0xff)
hash_str(s, state) == state \o [i \in DOMAIN s |-> Code(s[i])] \o <<255>>

RECURSIVE hash(_, _, _)
RECURSIVE hash_items(_, _, _)
RECURSIVE hash_entries(_, _, _)
\* <Value as Hash>::hash
hash(v, state, seed) ==
    CASE v.tag = "Bool" -> hash_bool(v.b, state)
      [] v.tag = "Integer" -> hash_i64(v.n, state)
      [] v.tag = "String" -> hash_str(v.s, state)
      [] v.tag = "List" -> hash_items(v.items, state, seed)
      [] v.tag = "Map" -> hash_entries(IterOrder(v.ents, seed), state, seed)

\* for item in l { item.hash(state) }
hash_items(items, state, seed) ==
    IF items = <<>> THEN state
    ELSE hash_items(Tail(items), hash(Head(items), state, seed), seed)

\* for (k, v) in m { k.hash(state); v.hash(state) }, in the map's iteration order
hash_entries(ents, state, seed) ==
    IF ents = <<>> THEN state
    ELSE hash_entries(Tail(ents),
                      hash(Head(ents)[2], hash(Head(ents)[1], state, seed), seed), seed)

RECURSIVE FinishFrom(_, _)
FinishFrom(state, h) ==
    IF state = <<>> THEN h ELSE FinishFrom(Tail(state), (h * 31 + Head(state)) % Limb)

\* Hasher::finish of a multiplicative hasher over the words written
finish(state) == FinishFrom(state, 7)

RECURSIVE from_entries(_, _)
\* HashMap::from / repeated HashMap::insert of the entries, first to last
from_entries(seq, ents) ==
    IF seq = <<>> THEN ents
    ELSE from_entries(Tail(seq), MapInsert(ents, Head(seq)[1], Head(seq)[2]))

\* the sequences of at most n entries with pairwise different keys
EntrySeqs(K, V, n) ==
    {s \in SeqsUpTo(K \X V, n) : \A i, j \in DOMAIN s : i # j => s[i][1] # s[j][1]}

IsPermutation(s, t) ==
    /\ Len(s) = Len(t)
    /\ \E f \in [DOMAIN s -> DOMAIN s] :
          /\ \A i, j \in DOMAIN s : i # j => f[i] # f[j]
          /\ \A i \in DOMAIN s : t[i] = s[f[i]]

\* pairs of insertion sequences holding the same entries
HashInputs ==
    LET S == EntrySeqs(Atoms, {VBool(TRUE), VList(<<VInteger(Num(1))>>)}, MaxLen)
    IN {<<s, t>> \in S \X S : IsPermutation(s, t)}

(***************************************************************************)
(* Specification SpecHash: two maps built from the same entries, inserted  *)
(* in two orders, are hashed, each map with its own RandomState.           *)
(***************************************************************************)
InitHash ==
    /\ body = <<>>
    /\ index = 0
    /\ pc = "ready"
    /\ exprs = <<>>
    /\ strCalls = <<>>
    /\ loopSteps = <<>>
    /\ arg \in HashInputs
    /\ ret = None
    /\ overflowChecks = TRUE
    /\ randomState = 0

HashMaps ==
    /\ pc = "ready"
    /\ \E seed1, seed2 \in SeedsFor(MaxLen) :
          LET m1 == VMap(from_entries(arg[1], {}))
              m2 == VMap(from_entries(arg[2], {}))
          IN ret' = [eq |-> (m1 = m2),
                     hash1 |-> finish(hash(m1, <<>>, seed1)),
                     hash2 |-> finish(hash(m2, <<>>, seed2))]
    /\ pc' = "done"
    /\ UNCHANGED <<body, index, exprs, strCalls, arg, overflowChecks, randomState, loopSteps>>

NextHash == HashMaps

SpecHash == InitHash /\ [][NextHash]_vars

(***************************************************************************)
(* enum Expr and its PartialEq.  A Box<Expr> is a one-element sequence.    *)
(***************************************************************************)
EVar(name, types, e) == [tag |-> "Var", name |-> name, types |-> types, v |-> <<>>, inner |-> <<e>>]
EValue(v) == [tag |-> "Value", name |-> <<>>, types |-> <<>>, v |-> <<v>>, inner |-> <<>>]
EIf(l, r) == [tag |-> "If", name |-> <<>>, types |-> <<>>, v |-> <<>>, inner |-> <<l, r>>]

\* an equality that compares the wrapped value expressions as well
ExprEq_WithValue(x, y) == x = y /\ x.tag # "If"

\* <Expr as PartialEq>::eq
ExprEq(x, y) ==
    CASE x.tag = "Var" /\ y.tag = "Var" -> x.name = y.name /\ x.types = y.types
      [] x.tag = "Value" /\ y.tag = "Value" -> x.v = y.v
      [] OTHER -> FALSE

(***************************************************************************)
(* struct Parser: the cursor.                                              *)
(***************************************************************************)
Cursor(i, calls, seed) ==
    [index |-> i, panic |-> FALSE, calls |-> calls, seed |-> seed, steps |-> <<>>]

\* the iteration of a loop that began at from and ended at p, recorded in the history
Stepped(p, loop, from) ==
    IF p.panic THEN p
    ELSE [p EXCEPT !.steps = Append(@, [loop |-> loop, from |-> from, to |-> p.index])]

\* a panic!, or an unwrap of None: the call unwinds
Panic(p) == [p EXCEPT !.panic = TRUE]

\* Option<char>: None is the empty string
NoChar == ""
\* Option<&[char]>, and what a call that may panic returns
Some(slice) == [some |-> TRUE, v |-> slice]
NoSlice == [some |-> FALSE, v |-> <<>>]

\* Parser::is_in_bounds
is_in_bounds(p, offset) == p.index + offset < Len(body)

\* Parser::curr_char
curr_char(p) == IF is_in_bounds(p, 0) THEN body[p.index + 1] ELSE NoChar

\* Parser::peek
peek(p, offset) ==
    IF is_in_bounds(p, offset)
    THEN Some(SubSeq(body, p.index + 1, p.index + offset))
    ELSE NoSlice

\* Parser::is_char
is_char(p, c) == curr_char(p) = c

\* Parser::skip
skip(p, offset) == IF p.panic THEN p ELSE [p EXCEPT !.index = @ + offset]

\* Parser::next
next(p) == skip(p, 1)

\* Parser::consume_char: [p, v], v the bool returned
consume_char(p, char_to_consume) ==
    IF ~p.panic /\ curr_char(p) = char_to_consume
    THEN [p |-> [p EXCEPT !.index = @ + 1], v |-> TRUE]
    ELSE [p |-> p, v |-> FALSE]

RECURSIVE skip_whitespace(_)
\* Parser::skip_whitespace
skip_whitespace(p) ==
    IF ~p.panic /\ is_in_bounds(p, 0) /\ is_ascii_whitespace(body[p.index + 1])
    THEN skip_whitespace([p EXCEPT !.index = @ + 1])
    ELSE p

\* the value slot of a call that panicked: never read
NoValue == VList(<<>>)

(***************************************************************************)
(* Lookahead tests.                                                        *)
(***************************************************************************)
is_var_dec(p) == peek(p, 3) = Some(<<"l", "e", "t">>)
is_true(p) == peek(p, 4) = Some(<<"t", "r", "u", "e">>)
is_false(p) == peek(p, 5) = Some(<<"f", "a", "l", "s", "e">>)
is_bool(p) == is_true(p) \/ is_false(p)
is_integer(p) == curr_char(p) # NoChar /\ is_ascii_digit(curr_char(p))
is_string(p) == curr_char(p) = "\""
is_list(p) == curr_char(p) = "["
is_map(p) == curr_char(p) = "{"
is_value(p) == is_integer(p) \/ is_string(p) \/ is_bool(p) \/ is_list(p) \/ is_map(p)
is_expr(p) == is_var_dec(p) \/ is_value(p)
is_type_decl(p) == curr_char(p) = ":"
is_int_type(p) == peek(p, 3) = Some(<<"i", "6", "4">>)
is_bool_type(p) == peek(p, 4) = Some(<<"b", "o", "o", "l">>)
is_str_type(p) == peek(p, 3) = Some(<<"s", "t", "r">>)
is_list_type(p) == peek(p, 4) = Some(<<"l", "i", "s", "t">>)
is_map_type(p) == peek(p, 3) = Some(<<"m", "a", "p">>)

\* a final test that lets every cursor position pass
sanity_check_Always(p) == TRUE

\* Parser::sanity_check
sanity_check(p) == p.index = Len(body)

(***************************************************************************)
(* Parser::consume_integer.  u32 and i64 numbers are <<hi, lo>>.           *)
(* A result that several later steps read is handed to the next operator   *)
(* as a parameter.                                                         *)
(***************************************************************************)
\* u32 x times a small u32 k: the wrapped product, and whether it overflowed
mul_u32(x, k) ==
    LET lo == x[2] * k
        hi == x[1] * k + (lo \div Limb)
    IN [v |-> <<hi % Limb, lo % Limb>>, overflow |-> hi >= Limb]

\* a product, overflowed if it or one of its factors did
or_overflow(m, overflow) == [v |-> m.v, overflow |-> m.overflow \/ overflow]

\* r times ten
pow_step(r) == or_overflow(mul_u32(r.v, 10), r.overflow)

RECURSIVE pow10_u32(_)
\* 10_u32.pow(exp).  The library squares and multiplies; every intermediate product
\* divides 10^exp, so it overflows exactly when this repeated product does, and
\* wraps to the same value.
pow10_u32(exp) ==
    IF exp = 0 THEN [v |-> <<0, 1>>, overflow |-> FALSE]
    ELSE pow_step(pow10_u32(exp - 1))

\* i64 addition of non-negative numbers (the sum stays far below 2^63)
add_i64(x, y) ==
    LET lo == x[2] + y[2]
    IN <<x[1] + y[1] + (lo \div Limb), lo % Limb>>

Reverse(s) == [i \in DOMAIN s |-> s[Len(s) + 1 - i]]

RECURSIVE take_digits(_, _)
\* while self.is_integer() { digits.push(..to_digit(10)..); self.next(); }
take_digits(p, digits) ==
    IF ~p.panic /\ is_integer(p)
    THEN take_digits(next(p), Append(digits, to_digit(curr_char(p))))
    ELSE [p |-> p, v |-> digits]

\* digit * 10_u32.pow(i), pw the power
digit_term(pw, digit) == or_overflow(mul_u32(pw.v, digit), pw.overflow)

\* num += term as i64
add_term(num, term) == [v |-> add_i64(num.v, term.v), overflow |-> num.overflow \/ term.overflow]

RECURSIVE sum_digits(_, _, _)
\* for (i, digit) in digits.into_iter().enumerate() { num += (digit * 10_u32.pow(i)) as i64 }
\* i here is the enumerate index plus one
sum_digits(digits, i, num) ==
    IF i > Len(digits) THEN num
    ELSE sum_digits(digits, i + 1, add_term(num, digit_term(pow10_u32(i - 1), digits[i])))

\* Value::from(num).  An overflowing u32 product panics in a build with overflow
\* checks and wraps in a build without.
integer_value(p, num) ==
    IF num.overflow /\ overflowChecks
    THEN [p |-> Panic(p), v |-> NoValue]
    ELSE [p |-> p, v |-> VInteger(num.v)]

\* the second loop of consume_integer, d the digits read
integer_sum(d) ==
    integer_value(d.p, sum_digits(Reverse(d.v), 1, [v |-> <<0, 0>>, overflow |-> FALSE]))

\* Parser::consume_integer
consume_integer(p) == integer_sum(take_digits(p, <<>>))

(***************************************************************************)
(* Parser::consume_string, consume_bool.                                   *)
(***************************************************************************)
RECURSIVE string_chars(_, _)
\* while !self.is_char('"') { s.push(self.curr_char().unwrap()); self.next(); }
string_chars(p, s) ==
    IF p.panic \/ is_char(p, "\"") THEN [p |-> p, v |-> s]
    ELSE IF curr_char(p) = NoChar THEN [p |-> Panic(p), v |-> s]
    ELSE string_chars(next(p), Append(s, curr_char(p)))

\* the call recorded in the history
Logged(p, from) ==
    IF p.panic THEN p ELSE [p EXCEPT !.calls = Append(@, [from |-> from, to |-> p.index])]

\* self.consume_char('"'); self.consume_char(';'); Value::from(s)
string_end(s, from) ==
    LET c == consume_char(s.p, "\"").p
        d == consume_char(c, ";").p
    IN [p |-> Logged(d, from), v |-> VString(s.v)]

\* Parser::consume_string
consume_string(p) == string_end(string_chars(consume_char(p, "\"").p, <<>>), p.index)

\* Parser::consume_true
consume_true(p) == [p |-> skip(p, 4), v |-> VBool(TRUE)]
\* Parser::consume_false
consume_false(p) == [p |-> skip(p, 5), v |-> VBool(FALSE)]

\* Parser::consume_bool
consume_bool(p) ==
    IF is_true(p) THEN consume_true(p)
    ELSE IF is_false(p) THEN consume_false(p)
    ELSE [p |-> Panic(p), v |-> NoValue]

(***************************************************************************)
(* Parser::consume_value, consume_list, consume_map.                       *)
(***************************************************************************)
RECURSIVE consume_value(_)
RECURSIVE list_items(_, _)
RECURSIVE consume_list(_)
RECURSIVE consume_map_entry(_)
RECURSIVE map_entries(_, _)
RECURSIVE consume_map(_)

\* Parser::consume_value
consume_value(p) ==
    IF p.panic THEN [p |-> p, v |-> NoValue]
    ELSE IF is_integer(p) THEN consume_integer(p)
    ELSE IF is_string(p) THEN consume_string(p)
    ELSE IF is_bool(p) THEN consume_bool(p)
    ELSE IF is_list(p) THEN consume_list(p)
    ELSE IF is_map(p) THEN consume_map(p)
    ELSE [p |-> Panic(p), v |-> NoValue]

\* values.push(value); skip_whitespace; consume_char(','); skip_whitespace; and loop
list_items_next(value, values, from) ==
    LET c == skip_whitespace(value.p)
        d == consume_char(c, ",").p
        e == skip_whitespace(d)
    IN list_items(Stepped(e, "list", from), Append(values, value.v))

\* the while loop of consume_list
list_items(p, values) ==
    IF p.panic \/ curr_char(p) = "]" THEN [p |-> p, v |-> values]
    ELSE list_items_next(consume_value(skip_whitespace(p)), values, p.index)

\* self.consume_char(']'); Value::from(values)
list_end(values) == [p |-> consume_char(values.p, "]").p, v |-> VList(values.v)]

\* Parser::consume_list
consume_list(p) == list_end(list_items(consume_char(p, "[").p, <<>>))

\* skip_whitespace; (key, val)
map_entry_end(k, val) == [p |-> skip_whitespace(val.p), k |-> k, v |-> val.v]

\* skip_whitespace; consume_char(':'); skip_whitespace; let val = consume_value()
map_entry_value(key) ==
    LET b == skip_whitespace(key.p)
        c == consume_char(b, ":").p
        d == skip_whitespace(c)
    IN map_entry_end(key.v, consume_value(d))

\* Parser::consume_map_entry: [p, k, v]
consume_map_entry(p) == map_entry_value(consume_value(skip_whitespace(p)))

\* hashmap.insert(key, val); consume_char(','); skip_whitespace; and loop
map_entries_next(e, hashmap, from) ==
    LET a == consume_char(e.p, ",").p
        b == skip_whitespace(a)
    IN map_entries(Stepped(b, "map", from), MapInsert(hashmap, e.k, e.v))

\* the while loop of consume_map
map_entries(p, hashmap) ==
    IF ~p.panic /\ is_value(p) /\ curr_char(p) # "}"
    THEN map_entries_next(consume_map_entry(p), hashmap, p.index)
    ELSE [p |-> p, v |-> hashmap]

\* self.consume_char('}'); skip_whitespace; Value::from(hashmap)
map_end(hashmap) ==
    LET c == consume_char(hashmap.p, "}").p
        d == skip_whitespace(c)
    IN [p |-> d, v |-> VMap(hashmap.v)]

\* Parser::consume_map
consume_map(p) ==
    LET a == consume_char(p, "{").p
        b == skip_whitespace(a)
    IN map_end(map_entries(b, {}))

(***************************************************************************)
(* Parser::consume_type_decl and the type atoms.                           *)
(***************************************************************************)
consume_int_type(p) == [p |-> skip(p, 3), v |-> TInteger]
consume_bool_type(p) == [p |-> skip(p, 4), v |-> TBool]
consume_str_type(p) == [p |-> skip(p, 3), v |-> TString]

RECURSIVE consume_chars(_, _)
\* for c in [..] { self.consume_char(c); }
consume_chars(p, cs) ==
    IF cs = <<>> THEN p ELSE consume_chars(consume_char(p, Head(cs)).p, Tail(cs))

RECURSIVE consume_type_decl(_)
RECURSIVE type_atoms(_, _)
RECURSIVE consume_list_type(_)
RECURSIVE consume_map_type(_)

\* skip_whitespace; consume_char(']'); skip_whitespace; Type::List(types)
list_type_end(types) ==
    LET e == skip_whitespace(types.p)
        f == consume_char(e, "]").p
        g == skip_whitespace(f)
    IN [p |-> g, v |-> TList(types.v)]

\* Parser::consume_list_type
consume_list_type(p) ==
    LET a == consume_chars(p, <<"l", "i", "s", "t">>)
        b == skip_whitespace(a)
        c == consume_char(b, "[").p
        d == skip_whitespace(c)
    IN list_type_end(consume_type_decl(d))

\* skip_whitespace; consume_char(']'); skip_whitespace; Type::Map(key_types, val_types)
map_type_end(key_types, val_types) ==
    LET h == skip_whitespace(val_types.p)
        i == consume_char(h, "]").p
        j == skip_whitespace(i)
    IN [p |-> j, v |-> TMap(key_types, val_types.v)]

\* skip_whitespace; consume_char(','); skip_whitespace; let val_types = consume_type_decl()
map_type_vals(key_types) ==
    LET e == skip_whitespace(key_types.p)
        f == consume_char(e, ",").p
        g == skip_whitespace(f)
    IN map_type_end(key_types.v, consume_type_decl(g))

\* Parser::consume_map_type
consume_map_type(p) ==
    LET a == consume_chars(p, <<"m", "a", "p">>)
        b == skip_whitespace(a)
        c == consume_char(b, "[").p
        d == skip_whitespace(c)
    IN map_type_vals(consume_type_decl(d))

\* let t = if self.is_int_type() { .. } else if .. else { panic!("Could not parse type") }
consume_type_atom(p) ==
    IF is_int_type(p) THEN consume_int_type(p)
    ELSE IF is_bool_type(p) THEN consume_bool_type(p)
    ELSE IF is_str_type(p) THEN consume_str_type(p)
    ELSE IF is_list_type(p) THEN consume_list_type(p)
    ELSE IF is_map_type(p) THEN consume_map_type(p)
    ELSE [p |-> Panic(p), v |-> TBool]

\* if !self.consume_char('|') { break; } self.skip_whitespace(); and loop
type_atoms_bar(bar, hashset, from) ==
    IF ~bar.v THEN [p |-> Stepped(bar.p, "type", from), v |-> hashset]
    ELSE type_atoms(Stepped(skip_whitespace(bar.p), "type", from), hashset)

\* hashset.insert(t); self.skip_whitespace(); and the rest of the loop body
type_atoms_next(t, hashset, from) ==
    IF t.p.panic THEN [p |-> t.p, v |-> hashset]
    ELSE type_atoms_bar(consume_char(skip_whitespace(t.p), "|"), hashset \cup {t.v}, from)

\* the while loop of consume_type_decl: [p, v], v the hash set
type_atoms(p, hashset) ==
    IF ~p.panic /\ curr_char(p) # NoChar /\ is_ascii_alphabetic(curr_char(p))
    THEN type_atoms_next(consume_type_atom(p), hashset, p.index)
    ELSE [p |-> p, v |-> hashset]

\* a type list collected from the hash set and left in its iteration order
type_decl_end_Unsorted(hashset) ==
    [p |-> hashset.p, v |-> IterOrder(hashset.v, hashset.p.seed)]

\* let mut types: Vec<Type> = hashset.into_iter().collect(); types.sort(); types
type_decl_end(hashset) ==
    [p |-> hashset.p, v |-> SortTypes(IterOrder(hashset.v, hashset.p.seed))]

\* Parser::consume_type_decl
consume_type_decl(p) ==
    LET a == consume_char(p, ":").p
        b == skip_whitespace(a)
    IN type_decl_end(type_atoms(b, {}))

(***************************************************************************)
(* Parser::consume_var.                                                    *)
(***************************************************************************)
\* Parser::consume_var_dec
consume_var_dec(p) == skip(p, 3)

RECURSIVE consume_name(_, _)
\* Parser::consume_name, name the String built so far
consume_name(p, name) ==
    IF ~p.panic /\ curr_char(p) # NoChar /\ is_ascii_alphabetic(curr_char(p))
    THEN consume_name(next(p), Append(name, curr_char(p)))
    ELSE [p |-> p, v |-> name]

\* a declaration whose annotation is dropped when the value is not of one of its types
var_types_Checked(types, value) ==
    IF types = <<>> \/ ~(\E i \in DOMAIN types : types[i] = type_of(value.v, value.p.seed))
    THEN <<type_of(value.v, value.p.seed)>>
    ELSE types

\* if types.is_empty() { types.push(value.type_of()) }
var_types(types, value) ==
    IF types = <<>> THEN <<type_of(value.v, value.p.seed)>> ELSE types

\* skip_whitespace; consume_char(';'); Expr::Var(name, types, Box::new(Expr::from(value)))
var_end(name, types, value) ==
    LET f == skip_whitespace(value.p)
        g == consume_char(f, ";").p
    IN [p |-> g, v |-> EVar(name, var_types(types, value), EValue(value.v))]

\* self.consume_char('='); self.skip_whitespace(); let value = self.consume_value()
var_value(name, decl) ==
    LET d == consume_char(decl.p, "=").p
        e == skip_whitespace(d)
    IN var_end(name, decl.v, consume_value(e))

\* let mut types = vec![]; if self.is_type_decl() { types = self.consume_type_decl() }
var_type_decl(c) ==
    IF is_type_decl(c) THEN consume_type_decl(c) ELSE [p |-> c, v |-> <<>>]

\* self.skip_whitespace() and the type annotation, name the name read
var_decl(name) == var_value(name.v, var_type_decl(skip_whitespace(name.p)))

\* Parser::consume_var
consume_var(p) ==
    LET a == consume_var_dec(p)
        b == skip_whitespace(a)
    IN var_decl(consume_name(b, <<>>))

(***************************************************************************)
(* Parser::parse, in three steps: the prologue, one iteration of the       *)
(* top-level loop, and the epilogue.                                       *)
(***************************************************************************)
\* let mut exprs = vec![]; self.skip_whitespace();
ParseBegin ==
    /\ pc = "ready"
    /\ index' = skip_whitespace(Cursor(index, strCalls, randomState)).index
    /\ pc' = "loop"
    /\ UNCHANGED <<body, exprs, strCalls, arg, ret, overflowChecks, randomState, loopSteps>>

\* consume_value().into()
value_expr(value) == [p |-> value.p, v |-> EValue(value.v)]

\* a loop body whose value branch consumes nothing
parse_statement_VarOnly(p) ==
    IF is_var_dec(p) THEN consume_var(p) ELSE [p |-> p, v |-> EValue(NoValue)]

\* if self.is_var_dec() { consume_var() } else if self.is_value() { consume_value().into() }
parse_statement(p) ==
    IF is_var_dec(p) THEN consume_var(p) ELSE value_expr(consume_value(p))

\* exprs.push(..); self.skip_whitespace(); self.consume_char(';'); self.skip_whitespace();
statement_end(e) ==
    LET a == skip_whitespace(e.p)
        b == consume_char(a, ";").p
        c == skip_whitespace(b)
    IN [p |-> c, v |-> e.v]

\* the body of `while self.is_expr() { .. }`
parse_iteration(p) == statement_end(parse_statement(p))

\* the parser after an iteration that returned r
Iterated(r) ==
    /\ index' = r.p.index
    /\ strCalls' = r.p.calls
    /\ loopSteps' = loopSteps \o Stepped(r.p, "parse", index).steps
    /\ exprs' = IF r.p.panic THEN exprs ELSE Append(exprs, r.v)
    /\ pc' = IF r.p.panic THEN "panicked" ELSE "loop"

\* one iteration of the top-level loop
ParseIteration ==
    /\ pc = "loop"
    /\ is_expr(Cursor(index, strCalls, randomState))
    /\ Iterated(parse_iteration(Cursor(index, strCalls, randomState)))
    /\ UNCHANGED <<body, arg, ret, overflowChecks, randomState>>

\* the parse after the loop, the cursor at p
Finished(p) ==
    /\ index' = p.index
    /\ IF sanity_check(p)
       THEN pc' = "done" /\ ret' = Some(exprs)
       ELSE pc' = "panicked" /\ ret' = None

\* self.skip_whitespace(); if !self.sanity_check() { panic!(..) }; exprs
ParseEnd ==
    /\ pc = "loop"
    /\ ~is_expr(Cursor(index, strCalls, randomState))
    /\ Finished(skip_whitespace(Cursor(index, strCalls, randomState)))
    /\ UNCHANGED <<body, exprs, strCalls, arg, overflowChecks, randomState, loopSteps>>

NextParse == ParseBegin \/ ParseIteration \/ ParseEnd

(***************************************************************************)
(* The programs parsed.  A form is [txt, wf]: the text, and whether every  *)
(* `=`, map `:` and map `}` of the grammar is written in it.               *)
(***************************************************************************)
Form(txt, wf) == [txt |-> txt, wf |-> wf]

RECURSIVE JoinForms(_, _)
\* the texts of the forms, sep between them
JoinForms(fs, sep) ==
    IF fs = <<>> THEN <<>>
    ELSE IF Len(fs) = 1 THEN fs[1].txt
    ELSE fs[1].txt \o sep \o JoinForms(Tail(fs), sep)

AllWf(fs) == \A i \in DOMAIN fs : fs[i].wf

AtomForms ==
    { Form(<<"1", "0">>, TRUE),
      Form(<<"\"", "a", "\"">>, TRUE),
      Form(<<"t", "r", "u", "e">>, TRUE),
      Form(<<"f", "a", "l", "s", "e">>, TRUE) }

ListForms ==
    { Form(<<"[">> \o JoinForms(fs, sep) \o <<"]">>, TRUE) :
        fs \in SeqsUpTo(AtomForms \cup {Form(<<"[", "7", "]">>, TRUE)}, MaxItems),
        sep \in {<<",">>, <<",", " ">>} }

\* a map entry, its colon written or left out
EntryForms ==
    { Form(k \o colon \o v, colon # <<" ">>) :
        k \in {<<"1", "0">>, <<"\"", "a", "\"">>},
        colon \in {<<":">>, <<" ">>},
        v \in {<<"\"", "b", "\"">>} }

\* a map literal, its closing brace written or left out
MapForms ==
    { Form(<<"{">> \o JoinForms(es, <<",", " ">>) \o close, AllWf(es) /\ close # <<>>) :
        es \in SeqsUpTo(EntryForms, MaxItems),
        close \in {<<"}">>, <<>>} }

ValueForms == AtomForms \cup ListForms \cup MapForms

\* a type annotation as written, and the canonical list of the types it names
Anno(txt, written, types) == [txt |-> txt, written |-> written, types |-> types]

AnnoForms ==
    { Anno(<<>>, FALSE, <<>>),
      Anno(<<":">>, TRUE, <<>>),
      Anno(<<":", " ", "b", "o", "o", "l">>, TRUE, <<TBool>>),
      Anno(<<":", " ", "s", "t", "r", " ", "|", " ", "i", "6", "4">>, TRUE, <<TInteger, TString>>),
      Anno(<<":", " ", "b", "o", "o", "l", " ", "|", " ", "s", "t", "r">>, TRUE, <<TBool, TString>>),
      Anno(<<":", "l", "i", "s", "t", "[", "i", "6", "4", "|", "b", "o", "o", "l", "]">>, TRUE,
           <<TList(<<TBool, TInteger>>)>>) }

\* the values declared
DeclValueForms ==
    AtomForms \cup
    { Form(<<"[", "1", ",", "\"", "a", "\"", "]">>, TRUE),
      Form(<<"{", "1", ":", "\"", "a", "\"", "}">>, TRUE),
      Form(<<"{", "1", " ", "2", "}">>, FALSE),
      Form(<<"{", "\"", "a", "\"", ":", " ", "2">>, FALSE) }

\* a statement: [kind, txt, wf, anno]
ValueStmts ==
    { [kind |-> "value", txt |-> f.txt, wf |-> f.wf, anno |-> Anno(<<>>, FALSE, <<>>)] :
        f \in ValueForms }

DeclStmts ==
    { [kind |-> "var",
       txt |-> <<"l", "e", "t", " ", "x">> \o a.txt \o eq \o f.txt,
       wf |-> f.wf /\ eq # <<" ">>,
       anno |-> a] :
        a \in AnnoForms, eq \in {<<"=">>, <<" ", "=", " ">>, <<" ">>}, f \in DeclValueForms }

\* what follows the statement: nothing, a second statement, or text that is none
Tails ==
    { [txt |-> <<>>, garbage |-> FALSE],
      [txt |-> <<" ", "2", ";">>, garbage |-> FALSE],
      [txt |-> <<" ", "g", "a", "r", "b", "a", "g", "e">>, garbage |-> TRUE] }

\* a program: whitespace, a statement, its `;` (or none), a tail
Programs ==
    { [stmt |-> st, lead |-> lead, term |-> term, tail |-> tail] :
        st \in ValueStmts \cup DeclStmts,
        lead \in {<<>>, <<" ">>},
        term \in {<<";">>, <<>>},
        tail \in Tails }

ProgramText(prog) == prog.lead \o prog.stmt.txt \o prog.term \o prog.tail.txt

(***************************************************************************)
(* Specification SpecParse: Parser::new(text), then parse().               *)
(***************************************************************************)
InitParse ==
    /\ arg \in Programs
    /\ body = ProgramText(arg)
    /\ index = 0
    /\ pc = "ready"
    /\ exprs = <<>>
    /\ strCalls = <<>>
    /\ loopSteps = <<>>
    /\ ret = None
    /\ overflowChecks \in BOOLEAN
    /\ randomState \in SeedsFor(MaxItems)

SpecParse == InitParse /\ [][NextParse]_vars

\* the loop condition of Parser::parse holds: exactly then an iteration can be taken
AtIteration == pc = "loop" /\ is_expr(Cursor(index, strCalls, randomState))

\* what every step of parse() changes: where it stands, the cursor or the list built
progress == <<pc, index, exprs>>

\* weak fairness of ParseIteration, its enabling condition written out
IterationFair == []<>~AtIteration \/ []<><<ParseIteration>>_progress

\* parse() runs on one thread and is never suspended: a step that can be taken is taken
SpecParseFair ==
    /\ InitParse
    /\ [][NextParse]_vars
    /\ WF_progress(ParseBegin)
    /\ IterationFair
    /\ WF_progress(ParseEnd)

(***************************************************************************)
(* Specification SpecTypeDecl: Parser::consume_type_decl applied to the    *)
(* annotation of a declaration.  An annotation atom is [tag, fst, snd]:    *)
(* the name of the type, and the unions written inside its brackets.       *)
(***************************************************************************)
AInt == [tag |-> "i64", fst |-> <<>>, snd |-> <<>>]
ABool == [tag |-> "bool", fst |-> <<>>, snd |-> <<>>]
AStr == [tag |-> "str", fst |-> <<>>, snd |-> <<>>]
AList(members) == [tag |-> "list", fst |-> members, snd |-> <<>>]
AMap(keys, vals) == [tag |-> "map", fst |-> keys, snd |-> vals]

\* the atoms an annotation is drawn from
AnnoAtoms ==
    {AInt, ABool, AStr}
        \cup {AList(u) : u \in {<<AInt>>, <<AInt, ABool>>, <<ABool, AInt, ABool>>}}
        \cup {AMap(k, <<ABool>>) : k \in {<<AInt, AStr>>, <<AStr, AInt, AStr>>}}

\* the unions of one to MaxAtoms atoms
AnnoUnions == SeqsUpTo(AnnoAtoms, MaxAtoms) \ {<<>>}

RECURSIVE AtomText(_)
RECURSIVE UnionText(_, _)
\* an atom as written
AtomText(a) ==
    CASE a.tag = "i64" -> <<"i", "6", "4">>
      [] a.tag = "bool" -> <<"b", "o", "o", "l">>
      [] a.tag = "str" -> <<"s", "t", "r">>
      [] a.tag = "list" -> <<"l", "i", "s", "t", "[">> \o UnionText(a.fst, <<"|">>) \o <<"]">>
      [] a.tag = "map" ->
            <<"m", "a", "p", "[">> \o UnionText(a.fst, <<"|">>) \o <<",", " ">>
                \o UnionText(a.snd, <<"|">>) \o <<"]">>

\* a union as written, bar between its atoms
UnionText(u, bar) ==
    IF u = <<>> THEN <<>>
    ELSE IF Len(u) = 1 THEN AtomText(u[1])
    ELSE AtomText(u[1]) \o bar \o UnionText(Tail(u), bar)

\* the annotation inside `let x: .. = 1;`, the cursor on its colon
InitTypeDecl ==
    /\ arg \in [atoms : AnnoUnions, bar : {<<"|">>, <<" ", "|", " ">>}]
    /\ body = <<":", " ">> \o UnionText(arg.atoms, arg.bar) \o <<" ", "=", " ", "1", ";">>
    /\ index = 0
    /\ pc = "ready"
    /\ exprs = <<>>
    /\ strCalls = <<>>
    /\ loopSteps = <<>>
    /\ ret = None
    /\ overflowChecks = TRUE
    /\ randomState \in SeedsFor(MaxAtoms)

\* the parser after a call that returned r
Returned(r) ==
    /\ index' = r.p.index
    /\ strCalls' = r.p.calls
    /\ loopSteps' = loopSteps \o r.p.steps
    /\ pc' = IF r.p.panic THEN "panicked" ELSE "done"
    /\ ret' = IF r.p.panic THEN None ELSE r.v

ConsumeTypeDecl ==
    /\ pc = "ready"
    /\ Returned(consume_type_decl(Cursor(index, strCalls, randomState)))
    /\ UNCHANGED <<body, exprs, arg, overflowChecks, randomState>>

NextTypeDecl == ConsumeTypeDecl

SpecTypeDecl == InitTypeDecl /\ [][NextTypeDecl]_vars

(***************************************************************************)
(* Specification SpecInteger: Parser::consume_integer applied to a run of  *)
(* digits, in a build with and in a build without overflow checks.         *)
(***************************************************************************)
Fill(k, d) == [i \in 1..k |-> d]

\* runs of at most MaxDigits digits: leading zeros, a digit, then zeros or nines
DigitRuns ==
    { run \in { Fill(z, 0) \o <<d>> \o Fill(k, f) :
                  z \in 0..2, d \in 0..9, k \in 0..(MaxDigits - 1), f \in {0, 9} } :
        Len(run) <= MaxDigits }

\* the digits as characters
RunText(run) == [i \in DOMAIN run |-> Digits[run[i] + 1]]

InitInteger ==
    /\ arg \in DigitRuns
    /\ body = RunText(arg) \o <<";">>
    /\ index = 0
    /\ pc = "ready"
    /\ exprs = <<>>
    /\ strCalls = <<>>
    /\ loopSteps = <<>>
    /\ ret = None
    /\ overflowChecks \in BOOLEAN
    /\ randomState = 0

ConsumeInteger ==
    /\ pc = "ready"
    /\ Returned(consume_integer(Cursor(index, strCalls, randomState)))
    /\ UNCHANGED <<body, exprs, arg, overflowChecks, randomState>>

NextInteger == ConsumeInteger

SpecInteger == InitInteger /\ [][NextInteger]_vars

(***************************************************************************)
(* Specification SpecEq: <Expr as PartialEq>::eq applied to two Exprs.     *)
(***************************************************************************)
EqValues == {EValue(VInteger(Num(5))), EValue(VInteger(Num(999))), EValue(VBool(TRUE))}

EqInputs ==
    {EVar(name, types, e) :
        name \in {<<"x">>, <<"y">>},
        types \in {<<TInteger>>, <<TBool>>, <<TBool, TInteger>>},
        e \in EqValues}
        \cup EqValues
        \cup {EIf(EValue(VBool(TRUE)), EValue(VInteger(Num(5))))}

InitEq ==
    /\ arg \in EqInputs \X EqInputs
    /\ body = <<>>
    /\ index = 0
    /\ pc = "ready"
    /\ exprs = <<>>
    /\ strCalls = <<>>
    /\ loopSteps = <<>>
    /\ ret = None
    /\ overflowChecks = TRUE
    /\ randomState = 0

Eq ==
    /\ pc = "ready"
    /\ ret' = ExprEq(arg[1], arg[2])
    /\ pc' = "done"
    /\ UNCHANGED <<body, index, exprs, strCalls, arg, overflowChecks, randomState, loopSteps>>

NextEq == Eq

SpecEq == InitEq /\ [][NextEq]_vars

(***************************************************************************)
(* Specification SpecPeek: a Parser over a text, advanced by next() and    *)
(* asked peek(n).                                                          *)
(***************************************************************************)
Keywords ==
    { <<"t", "r", "u", "e">>, <<"f", "a", "l", "s", "e">>, <<"l", "e", "t">>,
      <<"i", "6", "4">>, <<"b", "o", "o", "l">>, <<"s", "t", "r">>,
      <<"l", "i", "s", "t">>, <<"m", "a", "p">> }

\* a keyword at the end of the input, or a `;` after it
PeekTexts == {lead \o k \o end : lead \in {<<>>, <<" ">>}, k \in Keywords, end \in {<<>>, <<";">>}}

InitPeek ==
    /\ body \in PeekTexts
    /\ index = 0
    /\ pc = "ready"
    /\ exprs = <<>>
    /\ strCalls = <<>>
    /\ loopSteps = <<>>
    /\ arg = 0
    /\ ret = None
    /\ overflowChecks = TRUE
    /\ randomState = 0

\* self.next(), while the cursor is inside the text
Advance ==
    /\ pc = "ready"
    /\ index < Len(body)
    /\ index' = next(Cursor(index, strCalls, randomState)).index
    /\ UNCHANGED <<body, pc, exprs, strCalls, arg, ret, overflowChecks, randomState, loopSteps>>

\* self.peek(n)
Peek ==
    /\ pc = "ready"
    /\ \E n \in 0..MaxPeek :
        /\ arg' = n
        /\ ret' = peek(Cursor(index, strCalls, randomState), n)
    /\ pc' = "done"
    /\ UNCHANGED <<body, index, exprs, strCalls, overflowChecks, randomState, loopSteps>>

NextPeek == Advance \/ Peek

SpecPeek == InitPeek /\ [][NextPeek]_vars

(***************************************************************************)
(* C1.                                                                     *)
(***************************************************************************)
\* the fixed order of types: by variant, Bool < Integer < String < List < Map,
\* and two types of one variant by their member lists
Before(x, y) ==
    \/ Discriminant(x) < Discriminant(y)
    \/ Discriminant(x) = Discriminant(y) /\ TypeCmp(x, y) < 0

\* no member twice, members in the fixed order
Ascending(s) == \A i \in 1..(Len(s) - 1) : Before(s[i], s[i + 1])

RECURSIVE IsCanonicalTypeOf(_, _)
\* t is the canonical type of v: members are those of the items, each once, in order
IsCanonicalTypeOf(t, v) ==
    CASE v.tag = "Bool" -> t = TBool
      [] v.tag = "Integer" -> t = TInteger
      [] v.tag = "String" -> t = TString
      [] v.tag = "List" ->
            /\ t.tag = "List" /\ t.snd = <<>>
            /\ Ascending(t.fst)
            /\ \A i \in DOMAIN v.items : \E j \in DOMAIN t.fst : IsCanonicalTypeOf(t.fst[j], v.items[i])
            /\ \A j \in DOMAIN t.fst : \E i \in DOMAIN v.items : IsCanonicalTypeOf(t.fst[j], v.items[i])
      [] v.tag = "Map" ->
            /\ t.tag = "Map"
            /\ Ascending(t.fst) /\ Ascending(t.snd)
            /\ \A e \in v.ents : \E j \in DOMAIN t.fst : IsCanonicalTypeOf(t.fst[j], e[1])
            /\ \A j \in DOMAIN t.fst : \E e \in v.ents : IsCanonicalTypeOf(t.fst[j], e[1])
            /\ \A e \in v.ents : \E j \in DOMAIN t.snd : IsCanonicalTypeOf(t.snd[j], e[2])
            /\ \A j \in DOMAIN t.snd : \E e \in v.ents : IsCanonicalTypeOf(t.snd[j], e[2])

\* C1: whatever order the hash sets iterate in, type_of(v) is the canonical type of
\* v: atoms map to their atomic type, and the member lists of a List or Map type
\* hold exactly the types of the items (keys, values), each once, in the fixed order,
\* at every nesting level.
C1_TypeOfCanonical == pc = "done" => IsCanonicalTypeOf(ret, arg)

\* type_of has run on a list of two different nested lists that hold the same two
\* types in different orders, and gave one member
C1_Witness ==
    /\ pc = "done"
    /\ arg.tag = "List"
    /\ Len(arg.items) = 2
    /\ arg.items[1] # arg.items[2]
    /\ arg.items[1].tag = "List" /\ arg.items[2].tag = "List"
    /\ Len(ret.fst) = 1
    /\ Len(ret.fst[1].fst) = 2

(***************************************************************************)
(* C2.                                                                     *)
(***************************************************************************)
\* C2: two maps that hold the same entries hash to the same value, whatever order
\* the entries were inserted in and whatever order each map iterates in.
C2_EqualMapsHashEqual == pc = "done" /\ ret.eq => ret.hash1 = ret.hash2

(***************************************************************************)
(* C3.                                                                     *)
(***************************************************************************)
RECURSIVE IsCanonicalDecl(_, _)
RECURSIVE IsTypeOfAtom(_, _)
\* t is the type the atom a names
IsTypeOfAtom(t, a) ==
    CASE a.tag = "i64" -> t = TInteger
      [] a.tag = "bool" -> t = TBool
      [] a.tag = "str" -> t = TString
      [] a.tag = "list" -> t.tag = "List" /\ t.snd = <<>> /\ IsCanonicalDecl(t.fst, a.fst)
      [] a.tag = "map" ->
            t.tag = "Map" /\ IsCanonicalDecl(t.fst, a.fst) /\ IsCanonicalDecl(t.snd, a.snd)

\* types is the canonical list of the union u: the types of its atoms, each once,
\* in the fixed order.  Only the set of atoms of u matters.
IsCanonicalDecl(types, u) ==
    /\ Ascending(types)
    /\ \A i \in DOMAIN u : \E j \in DOMAIN types : IsTypeOfAtom(types[j], u[i])
    /\ \A j \in DOMAIN types : \E i \in DOMAIN u : IsTypeOfAtom(types[j], u[i])

\* C3: consume_type_decl returns, for every annotation, the list that its set of
\* atoms fixes: the types named, each once, in the fixed order, at the top level
\* and inside every bracket.  So two annotations with the same sets of atoms, in
\* any order and with any repetition, give the identical list.
C3_TypeDeclCanonical == pc # "ready" => pc = "done" /\ IsCanonicalDecl(ret, arg.atoms)

\* consume_type_decl has run on `i64 | bool | i64` and gave [Bool, Integer]
C3_Witness ==
    /\ pc = "done"
    /\ arg.atoms = <<AInt, ABool, AInt>>
    /\ ret = <<TBool, TInteger>>

(***************************************************************************)
(* C4.                                                                     *)
(***************************************************************************)
\* C4: a parsed declaration carries [type_of(value)] when no annotation is written,
\* and the canonical list of the annotation when an annotation that names at least
\* one type is written, whether or not the value is of one of these types.
C4_VarTypes ==
    pc = "done" /\ arg.stmt.kind = "var" =>
        /\ ret.v[1].tag = "Var"
        /\ ~arg.stmt.anno.written =>
              /\ Len(ret.v[1].types) = 1
              /\ IsCanonicalTypeOf(ret.v[1].types[1], ret.v[1].inner[1].v[1])
        /\ arg.stmt.anno.types # <<>> => ret.v[1].types = arg.stmt.anno.types

\* `let x: bool = 10;` was parsed: the annotation does not match the value
C4_Witness ==
    /\ pc = "done"
    /\ arg.stmt.kind = "var"
    /\ arg.stmt.anno.types = <<TBool>>
    /\ ret.v[1].inner[1].v[1].tag = "Integer"
    /\ ret.v[1].types = <<TBool>>

(***************************************************************************)
(* C5.                                                                     *)
(***************************************************************************)
\* C5: parse returns its list only with the cursor at the end of the input, and a
\* parse that fails returns nothing, whatever expressions it had collected.
C5_ReturnsOnlyAtEnd ==
    /\ pc = "done" => index = Len(body) /\ ret = Some(exprs)
    /\ pc # "done" => ret = None

\* the loop stopped in front of `garbage` after one statement, and the parse failed
C5_Witness ==
    /\ pc = "panicked"
    /\ arg.tail.garbage
    /\ Len(exprs) = 1
    /\ index = Len(body) - 7
    /\ ret = None

(***************************************************************************)
(* C6.                                                                     *)
(***************************************************************************)
\* acc = acc * 10 + digit, on a number <<hi, lo>>
Accumulate(acc, digit) ==
    LET lo == acc[2] * 10 + digit
    IN <<acc[1] * 10 + (lo \div Limb), lo % Limb>>

RECURSIVE DecimalFrom(_, _)
DecimalFrom(run, acc) ==
    IF run = <<>> THEN acc ELSE DecimalFrom(Tail(run), Accumulate(acc, Head(run)))

\* the decimal value of a run of digits, accumulated from the left
Decimal(run) == DecimalFrom(run, <<0, 0>>)

\* C6: consume_integer never fails on a run of digits whose value fits in an i64,
\* and returns Integer of the decimal value of the run.
C6_IntegerIsDecimal == pc # "ready" => pc = "done" /\ ret = VInteger(Decimal(arg))

(***************************************************************************)
(* C7.                                                                     *)
(***************************************************************************)
\* C7: a parse succeeds only if the `=` of every declaration, the `:` of every map
\* entry and the `}` of every map literal are written.
C7_MandatoryTokens == pc = "done" => arg.stmt.wf

(***************************************************************************)
(* C8.                                                                     *)
(***************************************************************************)
\* C8: two Var expressions are equal exactly when their names are equal and their
\* type lists are equal, whatever value expressions they wrap.
C8_VarEquality ==
    pc = "done" /\ arg[1].tag = "Var" /\ arg[2].tag = "Var" =>
        (ret <=> arg[1].name = arg[2].name /\ arg[1].types = arg[2].types)

\* two Vars that wrap different values were found equal
C8_Witness ==
    /\ pc = "done"
    /\ arg[1].tag = "Var" /\ arg[2].tag = "Var"
    /\ arg[1].inner # arg[2].inner
    /\ ret = TRUE

(***************************************************************************)
(* C9.                                                                     *)
(***************************************************************************)
\* C9: peek(n) returns the n characters from the cursor on when at least n remain,
\* also when exactly n remain, and nothing only when fewer than n remain.
C9_PeekWhenEnoughRemain ==
    pc = "done" =>
        IF Len(body) - index >= arg
        THEN ret = Some(SubSeq(body, index + 1, index + arg))
        ELSE ret = NoSlice

(***************************************************************************)
(* C10.                                                                    *)
(***************************************************************************)
\* the cursor position right after the quote that closes the string opened at from
AfterClosingQuote(from) ==
    CHOOSE q \in (from + 2)..Len(body) :
        /\ body[q] = "\""
        /\ \A j \in (from + 2)..(q - 1) : body[j] # "\""

\* C10: every call of consume_string that returned left the cursor right after the
\* closing quote of its string.
C10_StringCursor ==
    \A i \in DOMAIN strCalls : strCalls[i].to = AfterClosingQuote(strCalls[i].from)

(***************************************************************************)
(* C11.                                                                    *)
(***************************************************************************)
\* the parse has returned or has failed
Terminated == pc \in {"done", "panicked"}

\* every completed iteration of the top-level, list, map and type-annotation loops
\* left the cursor further on than it found it, and inside the input
EveryStepAdvances ==
    \A i \in DOMAIN loopSteps :
        loopSteps[i].from < loopSteps[i].to /\ loopSteps[i].to <= Len(body)

\* C11: every parse terminates, returning its expressions or failing, and every
\* iteration of the top-level loop, the list loop, the map loop and the
\* type-annotation loop that does not fail strictly advances the cursor.
C11_ParseTerminates == <>Terminated /\ []EveryStepAdvances

\* a parse returned after iterations of the top-level loop and of the list loop
C11_Witness ==
    /\ pc = "done"
    /\ \E i, j \in DOMAIN loopSteps :
          /\ loopSteps[i].loop = "list"
          /\ loopSteps[j].loop = "parse"
          /\ loopSteps[j].from <= loopSteps[i].from
          /\ loopSteps[i].to < loopSteps[j].to

====
